---- MODULE Spec2Model ----
(***************************************************************************)
(* Kiraboshi: the playback state controller (AudioEngine, audio.rs) and    *)
(* the per-frame poll that drives playlist advance (KiraboshiApp,          *)
(* player.rs), over an audio backend whose sounds run on their own thread. *)
(*                                                                         *)
(* A sound handle only REQUESTS pause / resume / stop / seek: the request  *)
(* is picked up when the sound next processes a block of audio.  What      *)
(* state() and position() return is what the sound last published.         *)
(***************************************************************************)
EXTENDS Integers, Sequences, FiniteSets, Bags, TLC

\* ------------------------------------------------------------- bounds
MaxSounds == 1      \* sounds still mixed by the manager after their handle was dropped
MaxPlaylist == 1    \* playlist length
MaxSeek == 2        \* largest position a seek is asked for (above every duration)
MaxLines == 2       \* lines of the playlist file found at start

Tracks == {"a", "b"}
Files == Tracks \cup {"c"}          \* file names met in the data directory
TwoLines == "x\ny"                  \* a file name with a line feed in it
NotUnicode == "\\xFF"               \* a file name that is not valid UTF-8
Notes == "n"                        \* a file that is no audio file (n.txt)
\* the files a data directory is tried with for the playlist file round trip
Names == Tracks \cup {Notes, TwoLines, NotUnicode}
\* every path: the names above and the two halves of TwoLines
Paths == Files \cup Names \cup {"x", "y"}
\* the order of paths (Vec::sort compares them byte by byte)
Sorted == <<"a", "b", "c", Notes, TwoLines, "x", "y", NotUnicode>>
Volumes == {0, 50}                  \* linear volume, in percent of 1.0
Outcomes == {"ok", "decode_error", "play_error"}
SeekPositions == -1 .. MaxSeek

\* Option<T>
None == <<>>
Some(x) == <<x>>

\* LoopMode
LoopMode == {"Off", "One", "All"}

\* PlaybackState of a sound
PlaybackState == {"Playing", "Pausing", "Paused", "Resuming", "Stopping", "Stopped"}

VARIABLES
    audio,        \* KiraboshiApp.audio : AudioEngine
    playlist,     \* KiraboshiApp.playlist
    was_playing,  \* KiraboshiApp.was_playing
    loop_mode,    \* KiraboshiApp.loop_mode
    shuffle,      \* KiraboshiApp.shuffle
    standalone,   \* KiraboshiApp.standalone
    error_message, \* KiraboshiApp.error_message
    disk,         \* the audio files in the data directory
    saved         \* the lines of the playlist file data/.kiraboshi

library == <<error_message, disk, saved>>
vars == <<audio, playlist, was_playing, loop_mode, shuffle, standalone, library>>

\* ------------------------------------------------------------- backend
\* StaticSoundData::duration, in whole seconds
sound_duration(path) == IF path = "a" THEN 1 ELSE 2

\* manager.play(sound_data): a new sound starts in state Playing at position 0
manager_play(path) ==
    [state |-> "Playing", position |-> 0, length |-> sound_duration(path),
     command |-> "none", seek_to |-> None, volume |-> 0]

\* the requests a handle writes; each kind keeps only the latest request
handle_stop(handle) == [handle EXCEPT !.command = "stop"]
handle_pause(handle) == [handle EXCEPT !.command = "pause"]
handle_resume(handle) == [handle EXCEPT !.command = "resume"]
handle_seek_to(handle, position) == [handle EXCEPT !.seek_to = Some(position)]
handle_set_volume(handle, db) == [handle EXCEPT !.volume = db]

\* what the manager keeps of a sound whose handle is gone
Detached(handle) ==
    [state |-> IF handle.state = "Stopping" THEN "Stopping" ELSE "Active",
     stop |-> handle.command = "stop"]

\* current_handle = None: the handle is dropped; the sound itself stays in the
\* manager until it has stopped
drop_handle(manager, handle) ==
    IF handle.state = "Stopped" THEN manager
    ELSE manager (+) SetToBag({Detached(handle)})

\* ------------------------------------------------------------- AudioEngine
new ==
    [manager |-> EmptyBag, current_handle |-> None, current_file |-> None,
     current_volume |-> 0, duration |-> 0, stopped |-> FALSE]

\* play_song that drops the old handle without stopping its sound
play_song_without_stop(self, path, outcome) ==
    LET torn == [self EXCEPT
                   !.manager = IF self.current_handle # None
                               THEN drop_handle(self.manager, self.current_handle[1])
                               ELSE self.manager,
                   !.current_handle = None]
        decoded == [torn EXCEPT !.duration = sound_duration(path)]
    IN  IF outcome = "decode_error" THEN torn
        ELSE IF outcome = "play_error" THEN decoded
        ELSE [decoded EXCEPT
                !.current_handle = Some(handle_set_volume(manager_play(path), self.current_volume)),
                !.current_file = Some(path),
                !.stopped = FALSE]

\* play_song that leaves the stopped flag as it was
play_song_keeps_stopped(self, path, outcome) ==
    LET torn == [self EXCEPT
                   !.manager = IF self.current_handle # None
                               THEN drop_handle(self.manager, handle_stop(self.current_handle[1]))
                               ELSE self.manager,
                   !.current_handle = None]
        decoded == [torn EXCEPT !.duration = sound_duration(path)]
    IN  IF outcome = "decode_error" THEN torn
        ELSE IF outcome = "play_error" THEN decoded
        ELSE [decoded EXCEPT
                !.current_handle = Some(handle_set_volume(manager_play(path), self.current_volume)),
                !.current_file = Some(path)]

\* play_song that leaves the new sound at the volume it is created with
play_song_default_volume(self, path, outcome) ==
    LET torn == [self EXCEPT
                   !.manager = IF self.current_handle # None
                               THEN drop_handle(self.manager, handle_stop(self.current_handle[1]))
                               ELSE self.manager,
                   !.current_handle = None]
        decoded == [torn EXCEPT !.duration = sound_duration(path)]
    IN  IF outcome = "decode_error" THEN torn
        ELSE IF outcome = "play_error" THEN decoded
        ELSE [decoded EXCEPT
                !.current_handle = Some(manager_play(path)),
                !.current_file = Some(path),
                !.stopped = FALSE]

play_song(self, path, outcome) ==
    LET torn == [self EXCEPT
                   !.manager = IF self.current_handle # None
                               THEN drop_handle(self.manager, handle_stop(self.current_handle[1]))
                               ELSE self.manager,
                   !.current_handle = None]
        decoded == [torn EXCEPT !.duration = sound_duration(path)]
    IN  IF outcome = "decode_error" THEN torn
        ELSE IF outcome = "play_error" THEN decoded
        ELSE [decoded EXCEPT
                !.current_handle = Some(handle_set_volume(manager_play(path), self.current_volume)),
                !.current_file = Some(path),
                !.stopped = FALSE]

\* play that leaves a stream the backend reports stopped alone
play_ignores_finished(self, outcome) ==
    IF self.current_handle # None
    THEN LET handle == self.current_handle[1] IN
         IF self.stopped
         THEN [self EXCEPT !.current_handle = Some(handle_resume(handle_seek_to(handle, 0))),
                           !.stopped = FALSE]
         ELSE IF handle.state \in {"Paused", "Pausing"}
         THEN [self EXCEPT !.current_handle = Some(handle_resume(handle))]
         ELSE self
    ELSE IF self.current_file # None
         THEN play_song(self, self.current_file[1], outcome)
         ELSE self

play(self, outcome) ==
    IF self.current_handle # None
    THEN LET handle == self.current_handle[1] IN
         IF self.stopped
         THEN [self EXCEPT !.current_handle = Some(handle_resume(handle_seek_to(handle, 0))),
                           !.stopped = FALSE]
         ELSE IF handle.state \in {"Paused", "Pausing"}
         THEN [self EXCEPT !.current_handle = Some(handle_resume(handle))]
         ELSE IF handle.state \in {"Stopped", "Stopping"}
         THEN IF self.current_file # None
              THEN play_song(self, self.current_file[1], outcome)
              ELSE self
         ELSE self
    ELSE IF self.current_file # None
         THEN play_song(self, self.current_file[1], outcome)
         ELSE self

pause(self) ==
    IF self.current_handle # None
    THEN [self EXCEPT !.current_handle = Some(handle_pause(self.current_handle[1]))]
    ELSE self

\* stop that stops the sound instead of pausing it
stop_by_handle_stop(self) ==
    IF self.current_handle # None
    THEN [self EXCEPT
            !.current_handle = Some(handle_seek_to(handle_stop(self.current_handle[1]), 0)),
            !.stopped = TRUE]
    ELSE self

stop(self) ==
    IF self.current_handle # None
    THEN [self EXCEPT
            !.current_handle = Some(handle_seek_to(handle_pause(self.current_handle[1]), 0)),
            !.stopped = TRUE]
    ELSE self

\* unload that keeps the remembered track
unload_keeps_file(self) ==
    [self EXCEPT
       !.manager = IF self.current_handle # None
                   THEN drop_handle(self.manager, handle_stop(self.current_handle[1]))
                   ELSE self.manager,
       !.current_handle = None,
       !.duration = 0,
       !.stopped = FALSE]

unload(self) ==
    [self EXCEPT
       !.manager = IF self.current_handle # None
                   THEN drop_handle(self.manager, handle_stop(self.current_handle[1]))
                   ELSE self.manager,
       !.current_handle = None,
       !.current_file = None,
       !.duration = 0,
       !.stopped = FALSE]

\* 20 * log10(volume_linear), rounded to whole decibels
log10_db(volume_linear) ==
    CASE volume_linear = 50 -> -6
      [] volume_linear = 100 -> 0
      [] volume_linear = 200 -> 6

set_volume(self, volume_linear) ==
    LET db == IF volume_linear > 0 THEN log10_db(volume_linear) ELSE -80 IN
    [self EXCEPT
       !.current_volume = db,
       !.current_handle = IF self.current_handle # None
                          THEN Some(handle_set_volume(self.current_handle[1], db))
                          ELSE None]

seek(self, position, outcome) ==
    IF self.current_handle # None
    THEN [self EXCEPT !.current_handle = Some(handle_seek_to(self.current_handle[1], position))]
    ELSE IF self.current_file # None
         THEN LET loaded == play_song(self, self.current_file[1], outcome) IN
              IF outcome = "ok" /\ loaded.current_handle # None
              THEN [loaded EXCEPT !.current_handle =
                      Some(handle_pause(handle_seek_to(loaded.current_handle[1], position)))]
              ELSE loaded
         ELSE self

\* is_playing that trusts the backend alone
is_playing_ignores_stopped(self) ==
    IF self.current_handle # None
    THEN self.current_handle[1].state \in {"Playing", "Resuming"}
    ELSE FALSE

is_playing(self) ==
    IF self.stopped THEN FALSE
    ELSE IF self.current_handle # None
         THEN self.current_handle[1].state \in {"Playing", "Resuming"}
         ELSE FALSE

get_position(self) ==
    IF self.current_handle # None THEN self.current_handle[1].position ELSE 0

get_duration(self) == self.duration

\* is_finished that reports a missing stream as finished
is_finished_without_stream(self) ==
    IF self.current_handle # None
    THEN self.current_handle[1].state \in {"Stopped", "Stopping"}
    ELSE TRUE

is_finished(self) ==
    IF self.current_handle # None
    THEN self.current_handle[1].state \in {"Stopped", "Stopping"}
    ELSE FALSE

current_file(self) == self.current_file

\* ------------------------------------------------------------- KiraboshiApp
\* iter().position(|p| *p == current): the first index (from 1) holding current, 0 if none
\* position that finds the last row holding current
position_last(list, current) ==
    IF \E i \in 1..Len(list) : list[i] = current
    THEN CHOOSE i \in 1..Len(list) : list[i] = current /\ \A j \in (i + 1)..Len(list) : list[j] # current
    ELSE 0

\* position that answers the first row when current is not found
position_or_first(list, current) ==
    IF \E i \in 1..Len(list) : list[i] = current
    THEN CHOOSE i \in 1..Len(list) : list[i] = current /\ \A j \in 1..(i - 1) : list[j] # current
    ELSE 1

position(list, current) ==
    IF \E i \in 1..Len(list) : list[i] = current
    THEN CHOOSE i \in 1..Len(list) : list[i] = current /\ \A j \in 1..(i - 1) : list[j] # current
    ELSE 0

\* shuffle that chooses among every entry
candidates_with_current(self, list) ==
    {list[i] : i \in 1..Len(list)}

\* the entries shuffle chooses among
candidates(self, list) ==
    {list[i] : i \in {j \in 1..Len(list) : self.current_file # Some(list[j]) \/ Len(list) = 1}}

\* play_next that wraps at the end of the playlist in every loop mode
play_next_wraps(self, list, mode, shuf, chosen, outcome) ==
    IF list = <<>> THEN self
    ELSE IF mode = "One"
    THEN IF self.current_file # None
         THEN play_song(self, self.current_file[1], outcome)
         ELSE self
    ELSE IF shuf
    THEN IF chosen \in candidates(self, list)
         THEN play_song(self, chosen, outcome)
         ELSE self
    ELSE IF self.current_file # None
    THEN LET idx == position(list, self.current_file[1]) IN
         IF idx = 0 THEN self
         ELSE IF idx + 1 <= Len(list) THEN play_song(self, list[idx + 1], outcome)
         ELSE play_song(self, list[1], outcome)
    ELSE self

\* play_next that never wraps
play_next_stops_at_end(self, list, mode, shuf, chosen, outcome) ==
    IF list = <<>> THEN self
    ELSE IF mode = "One"
    THEN IF self.current_file # None
         THEN play_song(self, self.current_file[1], outcome)
         ELSE self
    ELSE IF shuf
    THEN IF chosen \in candidates(self, list)
         THEN play_song(self, chosen, outcome)
         ELSE self
    ELSE IF self.current_file # None
    THEN LET idx == position(list, self.current_file[1]) IN
         IF idx = 0 THEN self
         ELSE IF idx + 1 <= Len(list) THEN play_song(self, list[idx + 1], outcome)
         ELSE self
    ELSE self

\* play_next that looks at shuffle before LoopMode::One
play_next_shuffle_first(self, list, mode, shuf, chosen, outcome) ==
    IF list = <<>> THEN self
    ELSE IF shuf
    THEN IF chosen \in candidates(self, list)
         THEN play_song(self, chosen, outcome)
         ELSE self
    ELSE IF mode = "One"
    THEN IF self.current_file # None
         THEN play_song(self, self.current_file[1], outcome)
         ELSE self
    ELSE IF self.current_file # None
    THEN LET idx == position(list, self.current_file[1]) IN
         IF idx = 0 THEN self
         ELSE IF idx + 1 <= Len(list) THEN play_song(self, list[idx + 1], outcome)
         ELSE IF mode = "All" THEN play_song(self, list[1], outcome)
         ELSE self
    ELSE self

\* play_next; chosen is what candidates.choose(rng) returns
play_next(self, list, mode, shuf, chosen, outcome) ==
    IF list = <<>> THEN self
    ELSE IF mode = "One"
    THEN IF self.current_file # None
         THEN play_song(self, self.current_file[1], outcome)
         ELSE self
    ELSE IF shuf
    THEN IF chosen \in candidates(self, list)
         THEN play_song(self, chosen, outcome)
         ELSE self
    ELSE IF self.current_file # None
    THEN LET idx == position(list, self.current_file[1]) IN
         IF idx = 0 THEN self
         ELSE IF idx + 1 <= Len(list) THEN play_song(self, list[idx + 1], outcome)
         ELSE IF mode = "All" THEN play_song(self, list[1], outcome)
         ELSE self
    ELSE self

\* Vec::remove and Vec::insert, indices from 1
remove(list, index) ==
    SubSeq(list, 1, index - 1) \o SubSeq(list, index + 1, Len(list))
insert(list, index, item) ==
    SubSeq(list, 1, index - 1) \o <<item>> \o SubSeq(list, index, Len(list))

\* one line for each path, in playlist order
\* Path::to_str: the characters of a path, None when it is not valid UTF-8
\* (a one-letter path stands for its own text)
to_str(path) ==
    IF path = NotUnicode THEN None
    ELSE IF path = TwoLines THEN Some(<<"x", "\n", "y">>)
    ELSE Some(<<path>>)

\* PathBuf::from: the path with the given characters
path_from(text) == CHOOSE path \in Paths : to_str(path) = Some(text)

\* [&str]::join
RECURSIVE join(_, _)
join(texts, separator) ==
    IF texts = <<>> THEN <<>>
    ELSE IF Len(texts) = 1 THEN texts[1]
    ELSE texts[1] \o separator \o join(Tail(texts), separator)

\* the pieces of text between line feeds
RECURSIVE split(_)
split(text) ==
    IF \E i \in 1..Len(text) : text[i] = "\n"
    THEN LET i == CHOOSE k \in 1..Len(text) :
                      text[k] = "\n" /\ \A j \in 1..(k - 1) : text[j] # "\n"
         IN  <<SubSeq(text, 1, i - 1)>> \o split(SubSeq(text, i + 1, Len(text)))
    ELSE <<text>>

\* str::lines: the last line needs no line feed, a carriage return before a line
\* feed goes with it
lines(text) ==
    LET pieces == split(text)
        ended == IF pieces[Len(pieces)] = <<>>
                 THEN SubSeq(pieces, 1, Len(pieces) - 1)
                 ELSE pieces
        strip(line) == IF line # <<>> /\ line[Len(line)] = "\r"
                       THEN SubSeq(line, 1, Len(line) - 1)
                       ELSE line
    IN  [i \in 1..Len(ended) |-> strip(ended[i])]

\* the text save_playlist writes: the paths that are valid UTF-8, one per line
save_playlist(list) ==
    LET written == SelectSeq(list, LAMBDA path : to_str(path) # None)
    IN  join([i \in 1..Len(written) |-> to_str(written[i])[1]], <<"\n">>)

\* the paths on the non-empty lines of the playlist file
load_playlist(contents) ==
    LET kept == SelectSeq(lines(contents), LAMBDA line : line # <<>>)
    IN  [i \in 1..Len(kept) |-> path_from(kept[i])]

\* Path::extension
extension(path) ==
    IF path = Notes THEN "txt"
    ELSE IF path = "c" THEN "MP3"
    ELSE "mp3"

\* str::to_lowercase
to_lowercase(text) == IF text = "MP3" THEN "mp3" ELSE text

extensions == {"mp3", "wav", "ogg", "flac"}

\* scan_songs: the playlist and the playlist file it leaves
\* scan_songs that pushes every file found, listed or not
scan_songs_pushes_all(list, files, contents) ==
    LET on_disk == SelectSeq(Sorted, LAMBDA path :
                       path \in files /\ to_lowercase(extension(path)) \in extensions)
        retained == SelectSeq(list, LAMBDA path :
                        \E i \in 1..Len(on_disk) : on_disk[i] = path)
        changed == on_disk # <<>>
    IN  [playlist |-> retained \o on_disk,
         saved |-> IF changed THEN save_playlist(retained \o on_disk) ELSE contents]

scan_songs(list, files, contents) ==
    LET on_disk == SelectSeq(Sorted, LAMBDA path :
                       path \in files /\ to_lowercase(extension(path)) \in extensions)
        retained == SelectSeq(list, LAMBDA path :
                        \E i \in 1..Len(on_disk) : on_disk[i] = path)
        pushed == SelectSeq(on_disk,
                      LAMBDA path : \A i \in 1..Len(retained) : retained[i] # path)
        changed == pushed # <<>>
    IN  [playlist |-> retained \o pushed,
         saved |-> IF changed THEN save_playlist(retained \o pushed) ELSE contents]

\* the reorder a released drag performs
move_swaps(list, drag_from, drop_to) ==
    [list EXCEPT ![drag_from] = list[drop_to], ![drop_to] = list[drag_from]]

move(list, drag_from, drop_to) ==
    insert(remove(list, drag_from), drop_to, list[drag_from])

\* the playlist and the playlist file a released drag leaves
drag_release(list, contents, drag_from, drop_to) ==
    IF drag_from # drop_to
    THEN [playlist |-> move(list, drag_from, drop_to),
          saved |-> save_playlist(move(list, drag_from, drop_to))]
    ELSE [playlist |-> list, saved |-> contents]

\* the engine a removal of row idx leaves
remove_keeps_session(self, list, idx) == self

remove_song(self, list, idx) ==
    IF current_file(self) = Some(list[idx]) THEN unload(self) ELSE self

\* what the removal of row idx leaves of playlist, engine and error message
remove_row(self, message, list, idx) ==
    [playlist |-> remove(list, idx),
     audio |-> remove_song(self, list, idx),
     error_message |-> message]

Playlists == UNION {[1..n -> Tracks] : n \in 0..MaxPlaylist}

Bounded(self) == BagCardinality(self.manager) <= MaxSounds

\* KiraboshiApp::new
Init ==
    /\ standalone \in BOOLEAN
    /\ loop_mode = "Off"
    /\ shuffle = FALSE
    /\ was_playing = FALSE
    /\ IF standalone
       THEN /\ playlist = <<>>
            /\ \E path \in Tracks, outcome \in Outcomes :
                  audio = play_song(set_volume(new, 50), path, outcome)
       ELSE /\ playlist \in Playlists
            /\ audio = set_volume(new, 50)
    /\ error_message = None
    /\ disk = {playlist[i] : i \in 1..Len(playlist)}
    /\ saved = save_playlist(playlist)

Engine(next) ==
    /\ audio' = next
    /\ Bounded(next)
    /\ UNCHANGED <<playlist, was_playing, loop_mode, shuffle, standalone, library>>

PlaySong == \E path \in Tracks, outcome \in Outcomes :
    Engine(play_song(audio, path, outcome))
\* a load has an outcome only where play loads
Play == \E outcome \in (IF audio.current_handle = None \/ is_finished(audio)
                        THEN Outcomes ELSE {"ok"}) :
    Engine(play(audio, outcome))
Pause == Engine(pause(audio))
Stop == Engine(stop(audio))
Unload == Engine(unload(audio))
SetVolume == \E volume \in Volumes : Engine(set_volume(audio, volume))
\* a load has an outcome only where seek loads
Seek == \E seek_position \in SeekPositions,
           outcome \in (IF audio.current_handle = None THEN Outcomes ELSE {"ok"}) :
    Engine(seek(audio, seek_position, outcome))

\* what candidates.choose(rng) can return; with no candidate nothing is chosen and
\* play_next looks at no choice
choose(self, list) ==
    IF candidates(self, list) = {} THEN {Sorted[1]} ELSE candidates(self, list)

\* update, the head of every frame: advance on a finished track, then record is_playing
\* the head of update that never refreshes was_playing downwards
update_playback_latches(self, was, list, mode, shuf, alone, chosen, outcome) ==
    LET finished == was /\ is_finished(self)
        after == IF ~alone /\ finished
                 THEN play_next(self, list, mode, shuf, chosen, outcome)
                 ELSE IF alone /\ finished /\ mode = "One" /\ self.current_file # None
                 THEN play_song(self, self.current_file[1], outcome)
                 ELSE self
    IN  [audio |-> after, was_playing |-> was \/ is_playing(after)]

\* the head of update: advance or loop a finished track, then record is_playing()
update_playback(self, was, list, mode, shuf, alone, chosen, outcome) ==
    LET finished == was /\ is_finished(self)
        advance == ~alone /\ finished
        after == IF advance
                 THEN play_next(self, list, mode, shuf, chosen, outcome)
                 ELSE IF alone /\ finished /\ mode = "One" /\ self.current_file # None
                 THEN play_song(self, self.current_file[1], outcome)
                 ELSE self
    IN  [audio |-> after, was_playing |-> is_playing(after)]

\* a pick and a load outcome exist only in the poll that advances or loops
Poll == \E chosen \in (IF was_playing /\ is_finished(audio)
                       THEN choose(audio, playlist) ELSE {Sorted[1]}),
           outcome \in (IF was_playing /\ is_finished(audio)
                        THEN Outcomes ELSE {"ok"}) :
    LET polled == update_playback(audio, was_playing, playlist, loop_mode, shuffle,
                                  standalone, chosen, outcome)
    IN  /\ audio' = polled.audio
        /\ Bounded(polled.audio)
        /\ was_playing' = polled.was_playing
        /\ UNCHANGED <<playlist, loop_mode, shuffle, standalone, library>>

LoopClick ==
    /\ loop_mode' = IF standalone
                    THEN (IF loop_mode = "One" THEN "Off" ELSE "One")
                    ELSE (CASE loop_mode = "Off" -> "One"
                            [] loop_mode = "One" -> "All"
                            [] loop_mode = "All" -> "Off")
    /\ UNCHANGED <<audio, playlist, was_playing, shuffle, standalone, library>>

ShuffleClick ==
    /\ ~standalone
    /\ shuffle' = ~shuffle
    /\ UNCHANGED <<audio, playlist, was_playing, loop_mode, standalone, library>>

\* ------------------------------------------------------------- the audio thread
\* a sound picks up the requests written through its handle
read_commands(sound) ==
    LET moved == IF sound.seek_to # None
                 THEN [sound EXCEPT !.position = sound.seek_to[1], !.seek_to = None]
                 ELSE sound
        state == CASE sound.command = "pause" -> "Pausing"
                   [] sound.command = "resume" -> "Resuming"
                   [] sound.command = "stop" -> "Stopping"
                   [] OTHER -> sound.state
    IN  [moved EXCEPT !.command = "none",
                      !.state = IF moved.position >= moved.length THEN "Stopped" ELSE state]

\* the fade of a pause, resume or stop request has run out
fade_done(sound) ==
    [sound EXCEPT !.state = CASE sound.state = "Pausing" -> "Paused"
                              [] sound.state = "Resuming" -> "Playing"
                              [] sound.state = "Stopping" -> "Stopped"
                              [] OTHER -> sound.state]

\* one second of audio is played; the sound stops by itself at its end
advance(sound) ==
    [sound EXCEPT !.position = sound.position + 1,
                  !.state = IF sound.position + 1 >= sound.length THEN "Stopped" ELSE sound.state]

Backend(next) ==
    /\ audio' = [audio EXCEPT !.current_handle = Some(next)]
    /\ UNCHANGED <<playlist, was_playing, loop_mode, shuffle, standalone, library>>

SoundReadCommands ==
    /\ audio.current_handle # None
    /\ LET sound == audio.current_handle[1] IN
       /\ sound.state # "Stopped"
       /\ sound.command # "none" \/ sound.seek_to # None
       /\ Backend(read_commands(sound))

SoundFade ==
    /\ audio.current_handle # None
    /\ LET sound == audio.current_handle[1] IN
       /\ sound.state \in {"Pausing", "Resuming", "Stopping"}
       /\ Backend(fade_done(sound))

SoundAdvance ==
    /\ audio.current_handle # None
    /\ LET sound == audio.current_handle[1] IN
       /\ sound.state \in {"Playing", "Pausing", "Resuming", "Stopping"}
       /\ Backend(advance(sound))

\* a sound without a handle picks up the stop request it was left with
ManagerReadStop == \E sound \in BagToSet(audio.manager) :
    /\ sound.stop
    /\ sound.state = "Active"
    /\ audio' = [audio EXCEPT !.manager =
                    (audio.manager (-) SetToBag({sound}))
                        (+) SetToBag({[state |-> "Stopping", stop |-> FALSE]})]
    /\ UNCHANGED <<playlist, was_playing, loop_mode, shuffle, standalone, library>>

\* a sound without a handle has stopped (faded out, or played to its end) and is unloaded
ManagerUnload == \E sound \in BagToSet(audio.manager) :
    /\ audio' = [audio EXCEPT !.manager = audio.manager (-) SetToBag({sound})]
    /\ UNCHANGED <<playlist, was_playing, loop_mode, shuffle, standalone, library>>

Next ==
    \/ PlaySong \/ Play \/ Pause \/ Stop \/ Unload \/ SetVolume \/ Seek
    \/ Poll \/ LoopClick \/ ShuffleClick
    \/ SoundReadCommands \/ SoundFade \/ SoundAdvance
    \/ ManagerReadStop \/ ManagerUnload

Spec == Init /\ [][Next]_vars

\* ------------------------------------------------------------- the playlist panel
PlaylistFiles ==
    {save_playlist(list) : list \in UNION {[1..n -> Files] : n \in 0..MaxLines}}

\* KiraboshiApp::new without a file argument, over any data directory
InitLibrary ==
    /\ standalone = FALSE
    /\ loop_mode = "Off"
    /\ shuffle = FALSE
    /\ was_playing = FALSE
    /\ error_message = None
    /\ audio = set_volume(new, 50)
    /\ disk \in SUBSET Files
    /\ \E contents \in PlaylistFiles :
          LET scanned == scan_songs(load_playlist(contents), disk, contents)
          IN  playlist = scanned.playlist /\ saved = scanned.saved

\* the scan of every frame
ScanSongs ==
    LET scanned == scan_songs(playlist, disk, saved) IN
    /\ playlist' = scanned.playlist
    /\ saved' = scanned.saved
    /\ UNCHANGED <<audio, was_playing, loop_mode, shuffle, standalone, error_message, disk>>

\* "+ Add Song": copy_to_data, then a scan
AddSong == \E source \in Files, copied \in BOOLEAN :
    /\ IF copied
       THEN LET scanned == scan_songs(playlist, disk \cup {source}, saved) IN
            /\ error_message' = None
            /\ disk' = disk \cup {source}
            /\ playlist' = scanned.playlist
            /\ saved' = scanned.saved
       ELSE /\ error_message' = Some("Failed to copy file")
            /\ UNCHANGED <<disk, playlist, saved>>
    /\ UNCHANGED <<audio, was_playing, loop_mode, shuffle, standalone>>

\* a click on a playlist row
RowClick == \E i \in 1..Len(playlist), outcome \in Outcomes :
    LET loaded == play_song(audio, playlist[i], outcome) IN
    /\ audio' = loaded
    /\ Bounded(loaded)
    /\ error_message' = IF outcome = "ok" THEN None ELSE Some(outcome)
    /\ UNCHANGED <<playlist, was_playing, loop_mode, shuffle, standalone, disk, saved>>

\* a click on the delete button of a row
RemoveRow == \E idx \in 1..Len(playlist) :
    LET left == remove_row(audio, error_message, playlist, idx) IN
    /\ playlist' = left.playlist
    /\ audio' = left.audio
    /\ Bounded(left.audio)
    /\ error_message' = left.error_message
    /\ disk' = disk \ {playlist[idx]}
    /\ saved' = save_playlist(left.playlist)
    /\ UNCHANGED <<was_playing, loop_mode, shuffle, standalone>>

\* a drag started on row drag_from is released over row drop_to
DragRelease == \E drag_from \in 1..Len(playlist), drop_to \in 1..Len(playlist) :
    LET dropped == drag_release(playlist, saved, drag_from, drop_to) IN
    /\ playlist' = dropped.playlist
    /\ saved' = dropped.saved
    /\ UNCHANGED <<audio, was_playing, loop_mode, shuffle, standalone, error_message, disk>>

\* a file of the data directory is deleted outside the player
FileDeleted == \E path \in disk :
    /\ disk' = disk \ {path}
    /\ UNCHANGED <<audio, playlist, was_playing, loop_mode, shuffle, standalone,
                   error_message, saved>>

NextLibrary ==
    \/ ScanSongs \/ AddSong \/ RowClick \/ RemoveRow \/ FileDeleted
    \/ ManagerUnload

\* the playlist panel over a data directory that changes
SpecLibrary == InitLibrary /\ [][NextLibrary]_vars

\* KiraboshiApp::new without a file argument, over a data directory with files of
\* every kind and the playlist file an earlier session wrote
InitRestart ==
    /\ standalone = FALSE
    /\ loop_mode = "Off"
    /\ shuffle = FALSE
    /\ was_playing = FALSE
    /\ error_message = None
    /\ audio = set_volume(new, 50)
    /\ disk \in SUBSET Names
    /\ \E listed \in UNION {[1..n -> Names] : n \in 0..MaxLines} :
          LET contents == save_playlist(listed)
              scanned == scan_songs(load_playlist(contents), disk, contents)
          IN  playlist = scanned.playlist /\ saved = scanned.saved

\* the player is closed and started again: KiraboshiApp::new reads the playlist file
Restart ==
    LET scanned == scan_songs(load_playlist(saved), disk, saved) IN
    /\ standalone' = FALSE
    /\ loop_mode' = "Off"
    /\ shuffle' = FALSE
    /\ was_playing' = FALSE
    /\ error_message' = None
    /\ audio' = set_volume(new, 50)
    /\ playlist' = scanned.playlist
    /\ saved' = scanned.saved
    /\ UNCHANGED disk

\* a file is put into the data directory outside the player
FileCreated == \E path \in Names \ disk :
    /\ disk' = disk \cup {path}
    /\ UNCHANGED <<audio, playlist, was_playing, loop_mode, shuffle, standalone,
                   error_message, saved>>

NextRestart ==
    \/ Restart \/ ScanSongs \/ DragRelease \/ FileCreated \/ FileDeleted

\* the playlist file across sessions, over file names of every kind
SpecRestart == InitRestart /\ [][NextRestart]_vars

\* KiraboshiApp::new without a file argument, the data directory holding the listed files
InitAdvance ==
    /\ standalone = FALSE
    /\ loop_mode = "Off"
    /\ shuffle = FALSE
    /\ was_playing = FALSE
    /\ error_message = None
    /\ audio = set_volume(new, 50)
    /\ \E listed \in UNION {[1..n -> Files] : n \in 0..MaxLines} :
          LET files == {listed[i] : i \in 1..Len(listed)}
              contents == save_playlist(listed)
              scanned == scan_songs(load_playlist(contents), files, contents)
          IN  disk = files /\ playlist = scanned.playlist /\ saved = scanned.saved

NextAdvance ==
    \/ RowClick \/ Play \/ Poll \/ LoopClick \/ ShuffleClick
    \/ FileDeleted \/ ScanSongs
    \/ SoundAdvance \/ ManagerUnload

\* playback through a playlist whose files may vanish
SpecAdvance == InitAdvance /\ [][NextAdvance]_vars

\* eframe calls update for every frame (each frame requests the next repaint)
\* and the audio thread keeps running: the poll and the scan of a frame, playback
\* and the release of stopped sounds are never held back forever; nothing forces
\* the user to act
FairAdvance ==
    /\ SpecAdvance
    /\ WF_vars(Poll)
    /\ WF_vars(ScanSongs)
    /\ WF_vars(SoundAdvance)
    /\ WF_vars(ManagerUnload)

\* ------------------------------------------------------------- claims
\* a sound is alive while the manager mixes it and nothing has asked it to stop
HeldAlive ==
    /\ audio.current_handle # None
    /\ audio.current_handle[1].state \notin {"Stopping", "Stopped"}
    /\ audio.current_handle[1].command # "stop"
DetachedAlive == CopiesIn([state |-> "Active", stop |-> FALSE], audio.manager)

\* C1: at most one stream created by the controller is alive in any reachable state:
\* every sound whose handle was dropped has been asked to stop before the next one
\* was created.
C1_AtMostOneStream ==
    (IF HeldAlive THEN 1 ELSE 0) + DetachedAlive <= 1
\* a new stream is alive while the manager still mixes the torn-down one
C1_Witness ==
    HeldAlive /\ BagCardinality(audio.manager) >= 1

\* C2 (as claimed): a play_song that fails to decode its file leaves the handle, the
\* remembered track, the duration and the stopped flag as they were before the call.
C2_FailedLoadChangesNothing ==
    [][\A path \in Tracks :
          audio' = play_song(audio, path, "decode_error")
          => /\ audio'.current_handle = audio.current_handle
             /\ audio'.current_file = audio.current_file
             /\ audio'.duration = audio.duration
             /\ audio'.stopped = audio.stopped]_vars

\* C3: a successful play_song, issued in any reachable state (Empty, Playing, Paused
\* or Stopped), ends in Loaded-Playing: a handle exists, stopped is false, the
\* remembered track is the loaded one, duration() is its decoded duration and
\* is_playing() is true.
C3_LoadEndsPlaying ==
    \A path \in Tracks :
        LET loaded == play_song(audio, path, "ok") IN
        /\ loaded.current_handle # None
        /\ ~loaded.stopped
        /\ current_file(loaded) = Some(path)
        /\ get_duration(loaded) = sound_duration(path)
        /\ is_playing(loaded)
\* a fresh stream is playing while the stream it replaced is still being torn down
C3_Witness ==
    /\ audio.current_handle # None
    /\ audio.current_handle[1] = handle_set_volume(manager_play(audio.current_file[1]),
                                                   audio.current_volume)
    /\ BagCardinality(audio.manager) >= 1
    /\ is_playing(audio)

\* C4: stop() is never taken for a finished track: while the controller is in
\* Loaded-Stopped and was_playing is still true, is_finished() is true only of a
\* stream that ran to its own end, so no poll advances the playlist because of stop().
C4_StopIsNotFinished ==
    (audio.stopped /\ was_playing /\ is_finished(audio))
        => audio.current_handle[1].position >= audio.current_handle[1].length
\* stop() has acted on a stream the last poll saw playing, and the backend has paused it
C4_Witness ==
    /\ audio.stopped
    /\ was_playing
    /\ audio.current_handle # None
    /\ audio.current_handle[1].state = "Paused"
    /\ ~is_finished(audio)

\* C5 (as claimed): with a stream, stop() sets the stopped flag, makes is_playing()
\* false, and get_position() read right after it returns 0.
C5_StopThenPositionZero ==
    [][(audio.current_handle # None /\ audio' = stop(audio))
          => /\ audio'.stopped
             /\ ~is_playing(audio')
             /\ get_position(audio') = 0]_vars

\* C6 (as claimed): play() in Loaded-Stopped, on a stream that has not finished,
\* clears the stopped flag and get_position() read right after it returns 0.
C6_PlayFromStoppedAtZero ==
    [][\A outcome \in Outcomes :
          (/\ audio.current_handle # None
           /\ audio.stopped
           /\ ~is_finished(audio)
           /\ audio' = play(audio, outcome))
          => /\ ~audio'.stopped
             /\ get_position(audio') = 0]_vars

\* C7: is_playing() is true exactly when a stream exists, stopped is false and the
\* backend reports Playing or Resuming; it is false whenever stopped is true or no
\* stream exists.
C7_IsPlaying ==
    /\ is_playing(audio) <=> /\ audio.current_handle # None
                             /\ ~audio.stopped
                             /\ audio.current_handle[1].state \in {"Playing", "Resuming"}
    /\ (audio.stopped \/ audio.current_handle = None) => ~is_playing(audio)
\* stopped is true while the backend still reports the stream Playing
C7_Witness ==
    /\ audio.stopped
    /\ audio.current_handle # None
    /\ audio.current_handle[1].state = "Playing"

\* C8: is_finished() is true exactly when a stream exists and the backend reports it
\* fully stopped (Stopped); false with no stream, false for a stream not yet stopped.
C8_IsFinished ==
    is_finished(audio) <=> /\ audio.current_handle # None
                           /\ audio.current_handle[1].state = "Stopped"
\* the held stream has stopped
C8_Witness ==
    /\ audio.current_handle # None
    /\ audio.current_handle[1].state = "Stopped"
    /\ is_finished(audio)

\* C9 (as claimed): seek(p), p within the track, with no stream, a remembered track
\* and a resource that decodes ends paused at p: a stream exists, is_playing() is
\* false, position is p.
C9_SeekLoadsPaused ==
    [][\A seek_position \in SeekPositions :
          (/\ audio.current_handle = None
           /\ audio.current_file # None
           /\ 0 <= seek_position
           /\ seek_position < sound_duration(audio.current_file[1])
           /\ audio' = seek(audio, seek_position, "ok"))
          => /\ audio'.current_handle # None
             /\ ~is_playing(audio')
             /\ get_position(audio') = seek_position]_vars

\* C10 (as claimed): seek(position) on an existing stream asks for position clamped
\* to [0, duration] and leaves the stopped flag alone.
C10_SeekClamps ==
    [][\A seek_position \in SeekPositions, outcome \in Outcomes :
          (audio.current_handle # None /\ audio' = seek(audio, seek_position, outcome))
          => /\ audio'.current_handle[1].seek_to =
                    Some(IF seek_position < 0 THEN 0
                         ELSE IF seek_position > audio.duration THEN audio.duration
                         ELSE seek_position)
             /\ audio'.stopped = audio.stopped]_vars

\* C11: unload(), called in any reachable state, ends in Empty: no handle, no
\* remembered track, duration() 0, stopped false; a play() or a seek() issued right
\* after it changes nothing and creates no stream.
C11_UnloadEndsEmpty ==
    LET empty == unload(audio) IN
    /\ empty.current_handle = None
    /\ current_file(empty) = None
    /\ get_duration(empty) = 0
    /\ ~empty.stopped
    /\ \A outcome \in Outcomes :
          /\ play(empty, outcome) = empty
          /\ \A seek_position \in SeekPositions : seek(empty, seek_position, outcome) = empty
\* unload() has emptied the controller while the manager still mixes the stream it tore down
C11_Witness ==
    /\ audio.current_handle = None
    /\ audio.current_file = None
    /\ audio.duration = 0
    /\ BagCardinality(audio.manager) >= 1

\* C18: the gain last requested of the active stream is the gain stored by the most
\* recent set_volume: set_volume stores the gain with or without a stream and hands
\* it to the active stream, and every stream created later (by play_song, play,
\* seek or advance) is handed the stored gain.
C18_VolumeFollows ==
    /\ audio.current_handle # None => audio.current_handle[1].volume = audio.current_volume
    /\ \A volume \in Volumes :
          LET set == set_volume(audio, volume) IN
          /\ set.current_volume = (IF volume > 0 THEN log10_db(volume) ELSE -80)
          /\ set.current_handle # None => set.current_handle[1].volume = set.current_volume
          /\ \A path \in Tracks :
                play_song(set, path, "ok").current_handle[1].volume = set.current_volume
\* a stream created after set_volume(0.0) carries the silence floor
C18_Witness ==
    /\ audio.current_handle # None
    /\ audio.current_handle[1] = handle_set_volume(manager_play(audio.current_file[1]), -80)
    /\ audio.current_volume = -80

\* the remembered track is on the last row of the playlist and on no row above it
CurrentOnLastRow ==
    /\ audio.current_file # None
    /\ playlist # <<>>
    /\ playlist[Len(playlist)] = audio.current_file[1]
    /\ \A i \in 1..(Len(playlist) - 1) : playlist[i] # audio.current_file[1]

\* C12: with shuffle off and LoopMode Off, play_next on the last row of the
\* playlist changes nothing: no load is issued, handle, remembered track and every
\* other field of the engine stay as they are.
C12_LastRowOffStays ==
    CurrentOnLastRow =>
        \A chosen \in choose(audio, playlist), outcome \in Outcomes :
            play_next(audio, playlist, "Off", FALSE, chosen, outcome) = audio
\* the track on the last of two rows has played to its end and the next frame
\* advances from it with LoopMode Off
C12_Witness ==
    /\ CurrentOnLastRow
    /\ Len(playlist) >= 2
    /\ loop_mode = "Off" /\ ~shuffle
    /\ was_playing /\ is_finished(audio)
    /\ audio.current_handle[1].position >= audio.current_handle[1].length

\* C13: with shuffle off and LoopMode All, play_next on the last row of the
\* playlist loads the track of the first row.
C13_LastRowAllWraps ==
    CurrentOnLastRow =>
        \A chosen \in choose(audio, playlist), outcome \in Outcomes :
            play_next(audio, playlist, "All", FALSE, chosen, outcome)
                = play_song(audio, playlist[1], outcome)
\* the track on the last of two rows has played to its end and the next frame
\* advances from it with LoopMode All
C13_Witness ==
    /\ CurrentOnLastRow
    /\ Len(playlist) >= 2
    /\ playlist[1] # playlist[Len(playlist)]
    /\ loop_mode = "All" /\ ~shuffle
    /\ was_playing /\ is_finished(audio)
    /\ audio.current_handle[1].position >= audio.current_handle[1].length

\* C14: with shuffle on and LoopMode Off or All, one play_next over two or more
\* rows never loads the remembered track; over exactly one row it loads that row.
C14_ShuffleSkipsCurrent ==
    \A mode \in {"Off", "All"}, chosen \in choose(audio, playlist), outcome \in Outcomes :
        LET next == play_next(audio, playlist, mode, TRUE, chosen, outcome)
            rows == {playlist[i] : i \in 1..Len(playlist)}
        IN  /\ (Len(playlist) >= 2 /\ audio.current_file # None) =>
                  \/ next = audio
                  \/ \E path \in rows \ {audio.current_file[1]} :
                        next = play_song(audio, path, outcome)
            /\ Len(playlist) = 1 => next = play_song(audio, playlist[1], outcome)
\* shuffle is on over two different rows, one of them has played to its end and
\* the next frame advances from it
C14_Witness ==
    /\ shuffle /\ loop_mode # "One"
    /\ Len(playlist) >= 2
    /\ playlist[1] # playlist[2]
    /\ audio.current_file \in {Some(playlist[1]), Some(playlist[2])}
    /\ was_playing /\ is_finished(audio)
    /\ audio.current_handle[1].position >= audio.current_handle[1].length

\* C15: with LoopMode One and a playlist that is not empty, play_next loads the
\* remembered track again and does nothing else, with shuffle on or off, the
\* remembered track being a row of the playlist or not.
C15_LoopOneReloads ==
    (playlist # <<>> /\ audio.current_file # None) =>
        \A shuf \in BOOLEAN, chosen \in choose(audio, playlist), outcome \in Outcomes :
            play_next(audio, playlist, "One", shuf, chosen, outcome)
                = play_song(audio, audio.current_file[1], outcome)
\* LoopMode One with shuffle on: the remembered track, no longer a row of the
\* playlist, has played to its end and the next frame advances from it
C15_Witness ==
    /\ loop_mode = "One" /\ shuffle
    /\ playlist # <<>>
    /\ audio.current_file # None
    /\ \A i \in 1..Len(playlist) : playlist[i] # audio.current_file[1]
    /\ was_playing /\ is_finished(audio)
    /\ audio.current_handle[1].position >= audio.current_handle[1].length

\* the rows of list other than row index, in their order
Others(list, index) ==
    [k \in 1..(Len(list) - 1) |-> IF k < index THEN list[k] ELSE list[k + 1]]

\* C16: move(from, to) with from # to takes the row out at from and puts it in at
\* to: the result has the same rows, the moved one at to, the others in their
\* order; [A,B,C,D] with from 0 and to 2 becomes [B,C,A,D]. With from = to the
\* playlist is unchanged and nothing is written to the playlist file.
C16_MoveReorders ==
    /\ move(<<"A", "B", "C", "D">>, 1, 3) = <<"B", "C", "A", "D">>
    /\ \A drag_from \in 1..Len(playlist), drop_to \in 1..Len(playlist) :
          LET dropped == drag_release(playlist, saved, drag_from, drop_to) IN
          IF drag_from # drop_to
          THEN /\ Len(dropped.playlist) = Len(playlist)
               /\ dropped.playlist[drop_to] = playlist[drag_from]
               /\ Others(dropped.playlist, drop_to) = Others(playlist, drag_from)
          ELSE dropped = [playlist |-> playlist, saved |-> saved]
\* a drag can be released over two different rows while the playlist file is
\* behind the playlist, so that a write would show
C16_Witness ==
    /\ Len(playlist) >= 2
    /\ playlist[1] # playlist[2]
    /\ saved # save_playlist(playlist)

\* C17: removing the row of the loaded track unloads the engine (no handle, no
\* remembered track afterwards) and sets no error message; removing any other
\* row leaves the engine (handle, remembered track, stopped, duration) as it is.
C17_RemoveUnloadsCurrent ==
    \A idx \in 1..Len(playlist) :
        LET left == remove_row(audio, error_message, playlist, idx) IN
        IF audio.current_file = Some(playlist[idx])
        THEN /\ left.audio.current_handle = None
             /\ current_file(left.audio) = None
             /\ left.audio = unload(audio)
             /\ left.error_message = error_message
        ELSE left.audio = audio
\* the row of the playing track was removed: the engine is empty, the sound it
\* let go of is still in the manager, the file is gone and the playlist written
C17_Witness ==
    /\ audio.current_handle = None
    /\ audio.current_file = None
    /\ BagCardinality(audio.manager) >= 1
    /\ playlist # <<>>
    /\ disk # Files
    /\ saved = save_playlist(playlist)

\* C19: every operation that changes the in-memory playlist (add, remove, reorder,
\* and the scan that drops missing files or appends new ones) writes it, so the
\* playlist file holds the in-memory playlist after each of them.
C19_SavedAfterEveryChange ==
    [][playlist' # playlist => saved' = save_playlist(playlist')]_vars

\* C20: whenever a load fails (row click, play, advance) the error message is set
\* to the failure text.
C20_LoadErrorSurfaced ==
    [][LET failures == {outcome \in Outcomes \ {"ok"} :
                           \E path \in Files : audio' = play_song(audio, path, outcome)}
       IN  (audio' # audio /\ failures # {}) =>
               error_message' \in {Some(outcome) : outcome \in failures}]_vars

\* C22 (as claimed): pause() on a stream in Loaded-Stopped leaves the stopped flag
\* set, and pause() on a stream in Loaded-Playing makes is_playing() false.
C22_PauseStopsPlaying ==
    [][(audio.current_handle # None /\ audio' = pause(audio) /\ audio' # audio)
          => IF audio.stopped
             THEN audio'.stopped
             ELSE is_playing(audio) => ~is_playing(audio')]_vars

\* C24 (as claimed): play() on a stream in Loaded-Stopped that the backend already
\* reports finished makes is_playing() true.
C24_PlayFromStoppedPlays ==
    [][\A outcome \in Outcomes :
          (/\ audio.current_handle # None
           /\ audio.stopped
           /\ is_finished(audio)
           /\ audio' = play(audio, outcome))
          => is_playing(audio')]_vars

\* C25: with a stream and the stopped flag false, play() on a stream the backend
\* reports stopped loads the remembered track again (the finished stream is
\* replaced, a successful load leaves a fresh stream, the remembered track is
\* unchanged); play() on a stream the backend reports Playing changes nothing.
C25_PlayReloadsFinished ==
    (audio.current_handle # None /\ ~audio.stopped) =>
        /\ audio.current_file # None
        /\ \A outcome \in Outcomes :
              LET played == play(audio, outcome) IN
              /\ audio.current_handle[1].state \in {"Stopped", "Stopping"} =>
                    /\ played = play_song(audio, audio.current_file[1], outcome)
                    /\ current_file(played) = current_file(audio)
                    /\ outcome = "ok" =>
                          played.current_handle =
                              Some(handle_set_volume(manager_play(audio.current_file[1]),
                                                     audio.current_volume))
              /\ audio.current_handle[1].state = "Playing" => played = audio
\* the held stream has played to its end with the stopped flag false
C25_Witness ==
    /\ audio.current_handle # None
    /\ ~audio.stopped
    /\ audio.current_handle[1].state = "Stopped"
    /\ audio.current_handle[1].position >= audio.current_handle[1].length
    /\ audio.current_handle[1].command = "none"

\* C30 (as claimed): in every reachable state the stopped flag is true only while a
\* stream handle is held.
C30_StoppedHasHandle ==
    audio.stopped => audio.current_handle # None

\* C23: a poll issues a load only when the previous poll recorded is_playing() true
\* and this poll sees is_finished() true, and then it is play_next that runs; a poll
\* that leaves a finished stream in place records was_playing false, and from then
\* on no poll changes anything, whatever the loop mode and shuffle setting are.
C23_AdvanceOnce ==
    ~standalone =>
        /\ \A chosen \in choose(audio, playlist), outcome \in Outcomes :
              LET polled == update_playback(audio, was_playing, playlist, loop_mode,
                                            shuffle, standalone, chosen, outcome) IN
              /\ polled.audio # audio => (was_playing /\ is_finished(audio))
              /\ (was_playing /\ is_finished(audio)) =>
                    polled.audio = play_next(audio, playlist, loop_mode, shuffle,
                                             chosen, outcome)
              /\ is_finished(polled.audio) => ~polled.was_playing
        /\ (is_finished(audio) /\ ~was_playing) =>
              \A mode \in LoopMode, shuf \in BOOLEAN, outcome \in Outcomes :
                 \A chosen \in choose(audio, playlist) :
                    update_playback(audio, was_playing, playlist, mode, shuf,
                                    standalone, chosen, outcome)
                        = [audio |-> audio, was_playing |-> FALSE]
\* an advance is due on the last row with LoopMode Off and other rows to go to
C23_Witness ==
    /\ ~standalone
    /\ was_playing
    /\ is_finished(audio)
    /\ audio.current_handle[1].position >= audio.current_handle[1].length
    /\ CurrentOnLastRow
    /\ Len(playlist) >= 2
    /\ loop_mode = "Off"
    /\ ~shuffle

\* C26: sequential advance (shuffle off, LoopMode Off or All) with the current track
\* first found on row i and a row i+1 present loads exactly the track on row i+1.
C26_SequentialNext ==
    audio.current_file # None =>
        \A i \in 1..(Len(playlist) - 1) :
           (/\ playlist[i] = audio.current_file[1]
            /\ \A j \in 1..(i - 1) : playlist[j] # audio.current_file[1])
           => \A mode \in {"Off", "All"}, outcome \in Outcomes :
                 play_next(audio, playlist, mode, FALSE, Sorted[1], outcome)
                     = play_song(audio, playlist[i + 1], outcome)
\* an advance is due with the current track on the first of several rows
C26_Witness ==
    /\ was_playing
    /\ is_finished(audio)
    /\ audio.current_handle[1].position >= audio.current_handle[1].length
    /\ ~shuffle
    /\ loop_mode # "One"
    /\ Len(playlist) >= 2
    /\ playlist[1] = audio.current_file[1]

\* C27: sequential advance (shuffle off, LoopMode Off or All) with the current track
\* on no row issues no load and changes nothing; advance on an empty playlist
\* changes nothing for every LoopMode and shuffle setting.
C27_LostTrackStays ==
    /\ (/\ audio.current_file # None
        /\ \A i \in 1..Len(playlist) : playlist[i] # audio.current_file[1])
       => \A mode \in {"Off", "All"}, outcome \in Outcomes :
             play_next(audio, playlist, mode, FALSE, Sorted[1], outcome) = audio
    /\ playlist = <<>> =>
          \A mode \in LoopMode, shuf \in BOOLEAN, chosen \in Files, outcome \in Outcomes :
             play_next(audio, playlist, mode, shuf, chosen, outcome) = audio
\* an advance is due for a track that left a playlist with rows, with LoopMode All
C27_Witness ==
    /\ was_playing
    /\ is_finished(audio)
    /\ audio.current_handle[1].position >= audio.current_handle[1].length
    /\ playlist # <<>>
    /\ \A i \in 1..Len(playlist) : playlist[i] # audio.current_file[1]
    /\ loop_mode = "All"
    /\ ~shuffle
\* an advance is due over an emptied playlist
C27_WitnessEmpty ==
    /\ was_playing
    /\ is_finished(audio)
    /\ playlist = <<>>

\* the held stream played to its end on its own, in playlist mode with the stopped
\* flag false, and LoopMode One makes every play_next load the track again
FinishedUnderLoopOne ==
    /\ ~standalone
    /\ audio.current_handle # None
    /\ audio.current_handle[1].state = "Stopped"
    /\ audio.current_handle[1].position >= audio.current_handle[1].length
    /\ ~audio.stopped
    /\ loop_mode = "One"
    /\ playlist # <<>>

\* C29 (as claimed): in playlist mode a stream that finished on its own with the
\* stopped flag false is followed by a poll that invokes play_next for it; under
\* LoopMode One that call loads a track, so the finished stream does not stay.
C29_FinishedAdvances ==
    FinishedUnderLoopOne ~> ~FinishedUnderLoopOne

\* C21 (as claimed): save_playlist followed by load_playlist returns the identical
\* ordered sequence of paths, for every playlist of non-empty paths.
C21_RoundTrip ==
    load_playlist(save_playlist(playlist)) = playlist

\* the rank of a path in the order of paths
Rank(path) == CHOOSE i \in 1..Len(Sorted) : Sorted[i] = path

\* C28: after scan_songs the playlist holds exactly the files of the data directory
\* with an audio extension: rows whose file is missing are dropped, the rows that
\* stay keep their order, the files not yet listed follow in ascending order, and
\* no path already listed is appended again.
C28_ScanMatchesDisk ==
    \A files \in SUBSET Names :
       LET scanned == scan_songs(playlist, files, saved).playlist
           candidates_on_disk ==
               {path \in files : to_lowercase(extension(path)) \in extensions}
           survivors == SelectSeq(playlist, LAMBDA path : path \in candidates_on_disk)
           appended == SubSeq(scanned, Len(survivors) + 1, Len(scanned))
       IN  /\ {scanned[i] : i \in 1..Len(scanned)} = candidates_on_disk
           /\ Len(scanned) >= Len(survivors)
           /\ SubSeq(scanned, 1, Len(survivors)) = survivors
           /\ \A i \in 1..Len(appended) :
                 /\ \A k \in 1..Len(playlist) : playlist[k] # appended[i]
                 /\ \A j \in (i + 1)..Len(appended) : Rank(appended[i]) < Rank(appended[j])
\* a scan is due that has a row to drop, rows to keep in an order that is not the
\* sorted one, a file to append and a file without audio extension to pass over
C28_Witness ==
    /\ \E i \in 1..Len(playlist) : playlist[i] \notin disk
    /\ \E i \in 1..Len(playlist), j \in 1..Len(playlist) :
          /\ i < j
          /\ playlist[i] \in disk
          /\ playlist[j] \in disk
          /\ Rank(playlist[i]) > Rank(playlist[j])
    /\ \E path \in disk :
          /\ to_lowercase(extension(path)) \in extensions
          /\ \A i \in 1..Len(playlist) : playlist[i] # path
    /\ Notes \in disk

====
